---- MODULE Spec2Model ----
(***************************************************************************)
(* DenseCRFLayer (src/src/caffe/layers/densecrf_layer.cpp): mean-field     *)
(* inference over a fully connected CRF, as a state machine.               *)
(*                                                                         *)
(* One behaviour is one life of a layer object: LayerSetUp, any number of  *)
(* Reshape calls, then one Forward_cpu pass over a batch.  Forward_cpu is  *)
(* followed call by call (pc is its position), because several properties  *)
(* are about what holds between its calls.                                 *)
(*                                                                         *)
(* Numbers.  Scores are small integers; exp and log are taken to base 2,   *)
(* so every probability is an exact rational <<num, den>>, and a value of  *)
(* the log domain is kept as sign * log2(p).  Floating-point rounding is   *)
(* not modelled.                                                           *)
(*                                                                         *)
(* Memory.  A buffer is a function from 0 .. size-1 to cells.  A cell that *)
(* was never written since its allocation is "indet": reading it gives an  *)
(* indeterminate value, and whatever is computed from it is indeterminate. *)
(* The contents of the outputs before Forward_cpu are "stale": unknown,    *)
(* not known to be zero.                                                   *)
(***************************************************************************)
EXTENDS Integers, Sequences, FiniteSets, TLC

(* Bounds of the model *)
MaxNum == 2
MaxM == 2
MaxDim == 2
MaxReal == 3
MaxIter == 2
MaxKernels == 1

(* The score maps bottom[0] is drawn from *)
ScoreMaps == {1, 2}

VARIABLES
  pc,              \* position: new, ready, reshaped, the places in Forward_cpu, returned, fatal, crashed
  nbottom,         \* bottom.size()
  max_iter_, pos_w_, pos_xy_std_, bi_w_, bi_xy_std_, bi_rgb_std_, has_image,
  num_, M_, pad_height_, pad_width_,
  unary_element_, map_element_,
  unary_, current_, next_, tmp_,
  top_inf, top_map,        \* top[0] and top[1] data, flat
  scores,                  \* bottom[0] data: which score map
  n,                       \* the loop index of Forward_cpu
  H_, W_, N_,
  iter,                    \* the loop index of RunInference
  pairwise_,
  trace,                   \* history: the solver's operations on the current image
  reallocated,             \* history: the last Reshape released and reallocated the buffers
  bottom2_read             \* history: bottom[2] has been accessed

vars == <<pc, nbottom, max_iter_, pos_w_, pos_xy_std_, bi_w_, bi_xy_std_, bi_rgb_std_,
          has_image, num_, M_, pad_height_, pad_width_, unary_element_, map_element_,
          unary_, current_, next_, tmp_, top_inf, top_map, scores, n, H_, W_, N_,
          iter, pairwise_, trace, reallocated, bottom2_read>>

cfgVars == <<nbottom, max_iter_, pos_w_, pos_xy_std_, bi_w_, bi_xy_std_, bi_rgb_std_, has_image>>
shapeVars == <<num_, M_, pad_height_, pad_width_>>
bufVars == <<unary_element_, map_element_, unary_, current_, next_, tmp_>>
topVars == <<top_inf, top_map>>
imgVars == <<H_, W_, N_>>

----
(* Rationals *)

RECURSIVE GCD(_, _)
GCD(a, b) == IF b = 0 THEN a ELSE GCD(b, a % b)

Rat(a, b) == LET g == GCD(a, b) IN <<a \div g, b \div g>>
RatAdd(x, y) == Rat(x[1] * y[2] + y[1] * x[2], x[2] * y[2])
RatMul(x, y) == Rat(x[1] * y[1], x[2] * y[2])
RatDiv(x, y) == Rat(x[1] * y[2], x[2] * y[1])
RatLess(x, y) == x[1] * y[2] < y[1] * x[2]
RatZero == <<0, 1>>

RECURSIVE Pow2(_)
Pow2(k) == IF k = 0 THEN 1 ELSE 2 * Pow2(k - 1)

RECURSIVE RatSum(_, _)
RatSum(f, k) == IF k = 0 THEN RatZero ELSE RatAdd(RatSum(f, k - 1), f[k - 1])

----
(* Cells *)

Cell(k, s, p, i) == [kind |-> k, sign |-> s, p |-> p, img |-> i]
Indet == Cell("indet", 0, RatZero, -1)
Stale == Cell("stale", 0, RatZero, -1)
Zero == Cell("zero", 0, RatZero, -1)
Smooth == Cell("smooth", 0, RatZero, -1)
Prob(p) == Cell("prob", 0, p, -1)

StaleLabel == -1
IndetLabel == -2

----
(* Construction: the members are not yet set; the buffers are no memory *)

NoBuffer == [i \in {} |-> Indet]
NoLabels == [i \in {} |-> StaleLabel]

Init ==
  /\ pc = "new"
  /\ nbottom = 0
  /\ max_iter_ = 0
  /\ pos_w_ = <<>> /\ pos_xy_std_ = <<>>
  /\ bi_w_ = <<>> /\ bi_xy_std_ = <<>> /\ bi_rgb_std_ = <<>>
  /\ has_image = FALSE
  /\ num_ = 0 /\ M_ = 0 /\ pad_height_ = 0 /\ pad_width_ = 0
  /\ unary_element_ = 0 /\ map_element_ = 0
  /\ unary_ = NoBuffer /\ current_ = NoBuffer /\ next_ = NoBuffer /\ tmp_ = NoBuffer
  /\ top_inf = NoBuffer /\ top_map = NoLabels
  /\ scores = 0
  /\ n = 0 /\ H_ = 0 /\ W_ = 0 /\ N_ = 0 /\ iter = 0
  /\ pairwise_ = <<>>
  /\ trace = <<>>
  /\ reallocated = FALSE
  /\ bottom2_read = FALSE

----
(* LayerSetUp *)

\* dense_crf_param: the iteration count and the sizes of the five repeated fields
Params == [max_iter : 0 .. MaxIter,
           pos_w : 0 .. MaxKernels, pos_xy_std : 0 .. MaxKernels,
           bi_w : 0 .. MaxKernels, bi_xy_std : 0 .. MaxKernels, bi_rgb_std : 0 .. MaxKernels]

\* The k-th value of a repeated field stands for itself
Field(size) == [k \in 1 .. size |-> k]

\* The CHECKs of LayerSetUp, in order, for the bottoms given
SetUpChecks(p, nb, channels2) ==
  /\ p.pos_w = p.pos_xy_std
  /\ p.bi_w = p.bi_xy_std
  /\ p.bi_w = p.bi_rgb_std
  /\ nb >= 2
  /\ (nb > 2 => (p.bi_w > 0 /\ channels2 = 3))

LayerSetUp(p, nb, channels2) ==
  /\ pc = "new"
  /\ nbottom' = nb
  /\ max_iter_' = p.max_iter
  /\ pos_w_' = Field(p.pos_w)
  /\ pos_xy_std_' = Field(p.pos_xy_std)
  /\ bi_w_' = Field(p.bi_w)
  /\ bi_xy_std_' = Field(p.bi_xy_std)
  /\ bi_rgb_std_' = Field(p.bi_rgb_std)
  /\ has_image' = IF p.pos_w = p.pos_xy_std /\ p.bi_w = p.bi_xy_std
                     /\ p.bi_w = p.bi_rgb_std /\ nb >= 2
                  THEN nb > 2 ELSE has_image
  /\ pc' = IF SetUpChecks(p, nb, channels2) THEN "ready" ELSE "fatal"
  /\ unary_element_' = 0 /\ map_element_' = 0
  /\ unary_' = NoBuffer /\ current_' = NoBuffer /\ next_' = NoBuffer /\ tmp_' = NoBuffer
  /\ UNCHANGED <<shapeVars, topVars, scores, n, imgVars, iter, pairwise_, trace,
                 reallocated, bottom2_read>>

----
(* Reshape *)

\* allocate(size): fresh memory, no cell of it written
AllocateAllData(size) == [i \in 0 .. size - 1 |-> Indet]

\* line 112: the buffers are regrown
NeedsRegrow_le(cur) == unary_element_ <= cur
NeedsRegrow(cur) == unary_element_ < cur

\* The shapes of bottom[0] and bottom[2]
Shapes0 == [num : 1 .. MaxNum, channels : 1 .. MaxM, height : 1 .. MaxDim, width : 1 .. MaxDim]
Shapes2 == [num : 1 .. MaxNum, height : 1 .. MaxDim, width : 1 .. MaxDim]

\* bottom[2] of a two-element vector: the read is out of range, so it crashes,
\* or yields a number that differs from bottom[1]->num(), or one that equals it
OutOfRange == {"crash", "differs", "equal"}

Reshape(b0, num1, b2, ub) ==
  /\ pc \in {"ready", "reshaped"}
  /\ num_' = b0.num /\ M_' = b0.channels
  /\ pad_height_' = b0.height /\ pad_width_' = b0.width
  /\ LET sameNum01 == b0.num = num1
         crash     == sameNum01 /\ nbottom < 3 /\ ub = "crash"
         sameNum12 == IF nbottom >= 3 THEN num1 = b2.num ELSE ub = "equal"
         sameSize  == has_image => (b0.height = b2.height /\ b0.width = b2.width)
         num_pixel == b0.height * b0.width
         cur_unary_element == num_pixel * b0.channels
     IN /\ bottom2_read' = (bottom2_read \/ sameNum01)
        /\ IF crash THEN
             /\ pc' = "crashed"
             /\ reallocated' = FALSE
             /\ UNCHANGED <<bufVars, topVars>>
           ELSE IF ~(sameNum01 /\ sameNum12 /\ sameSize) THEN
             /\ pc' = "fatal"
             /\ reallocated' = FALSE
             /\ UNCHANGED <<bufVars, topVars>>
           ELSE
             /\ pc' = "reshaped"
             /\ reallocated' = NeedsRegrow(cur_unary_element)
             /\ IF NeedsRegrow(cur_unary_element) THEN
                  /\ unary_element_' = cur_unary_element
                  /\ map_element_' = num_pixel
                  /\ unary_' = AllocateAllData(cur_unary_element)
                  /\ current_' = AllocateAllData(cur_unary_element)
                  /\ next_' = AllocateAllData(cur_unary_element)
                  /\ tmp_' = AllocateAllData(cur_unary_element)
                ELSE UNCHANGED bufVars
             /\ top_inf' = [i \in 0 .. b0.num * cur_unary_element - 1 |-> Stale]
             /\ top_map' = [i \in 0 .. b0.num * num_pixel - 1 |-> StaleLabel]
  /\ UNCHANGED <<cfgVars, scores, n, imgVars, iter, pairwise_, trace>>

----
(* Forward_cpu: the loop over the images of the batch *)

\* An access outside its buffer: the pass crashes, or goes on (the write lands in
\* memory that is not the buffer's, the read gives an indeterminate value)
Outcomes(outside) == IF outside THEN {"crash", "goes on"} ELSE {"goes on"}

\* bottom[0] data of score map pat: the raw score of class c at (h, w) of image img.
\* Map 1 varies by row (image 0, two classes: class 0 wins row 0, class 1 row 1),
\* map 2 by column; where no class is singled out all classes tie.
Score(pat, img, c, h, w) ==
  LET a == pat % 2
      b == pat \div 2
  IN IF (a * h + b * w + img) % (M_ + 1) = c THEN 1 ELSE 0

ForwardBegin(pat) ==
  /\ pc = "reshaped"
  /\ scores' = pat
  /\ n' = 0
  /\ pc' = "image"
  /\ UNCHANGED <<cfgVars, shapeVars, bufVars, topVars, imgVars, iter, pairwise_, trace,
                 reallocated, bottom2_read>>

\* lines 151-173: the dimension record of image n is read, the active size is set
\* and checked against the preallocated memory
ImageCheck(real_img_height, real_img_width) ==
  /\ pc = "image"
  /\ n < num_
  /\ LET cropped == pad_height_ <= real_img_height /\ pad_width_ <= real_img_width
         H == IF cropped THEN pad_height_ ELSE real_img_height
         W == IF cropped THEN pad_width_ ELSE real_img_width
     IN /\ H_' = H
        /\ W_' = W
        /\ N_' = W * H
        /\ pc' = IF W * H <= map_element_ THEN "unary" ELSE "fatal"
  /\ UNCHANGED <<cfgVars, shapeVars, bufVars, topVars, scores, n, iter, pairwise_, trace,
                 reallocated, bottom2_read>>

ForwardReturn ==
  /\ pc = "image"
  /\ ~(n < num_)
  /\ pc' = "returned"
  /\ UNCHANGED <<cfgVars, shapeVars, bufVars, topVars, scores, n, imgVars, iter, pairwise_,
                 trace, reallocated, bottom2_read>>

----
(* SetupUnaryEnergy *)

\* 2^d for d <= 0
Exp2(d) == Rat(1, Pow2(0 - d))

RECURSIVE MaxScore(_, _, _, _, _)
\* lines 404-415: the maximum over the classes 0 .. j of the scores at a padded pixel
MaxScore(pat, img, j, h, w) ==
  IF j = 0 THEN Score(pat, img, 0, h, w)
  ELSE LET m == MaxScore(pat, img, j - 1, h, w)
           s == Score(pat, img, j, h, w)
       IN IF m < s THEN s ELSE m

\* lines 417-432: norm_data at channel c of padded pixel (h, w)
NormData(pat, img, c, h, w) ==
  LET mx == MaxScore(pat, img, M_ - 1, h, w)
      e  == [j \in 0 .. M_ - 1 |-> Exp2(Score(pat, img, j, h, w) - mx)]
  IN RatDiv(e[c], RatSum(e, M_))

\* norm_data[in_index]; the blob holds M_ * pad_height_ * pad_width_ values
NormDataAt(pat, img, in_index) ==
  LET spatial_dim == pad_height_ * pad_width_
  IN IF in_index >= M_ * spatial_dim THEN Indet
     ELSE Cell("log", -1,
               NormData(pat, img, in_index \div spatial_dim,
                        (in_index % spatial_dim) \div pad_width_, in_index % pad_width_),
               img)

\* line 439: where the energy of class c at active pixel (h, w) is written
UnaryIndex(c, h, w) == (h * pad_width_ + w) * M_ + c

\* lines 435-443: the writes, (c, h, w) in loop order
UnaryWrites == (0 .. M_ - 1) \X (0 .. H_ - 1) \X (0 .. W_ - 1)
UnaryOrder(t) == (t[1] * H_ + t[2]) * W_ + t[3]
UnaryWritesOutside == \E t \in UnaryWrites : UnaryIndex(t[1], t[2], t[3]) >= unary_element_

SetupUnaryEnergy(ub) ==
  /\ pc = "unary"
  /\ IF ub = "crash" THEN pc' = "crashed" /\ UNCHANGED unary_
     ELSE
       /\ pc' = "pairwise"
       /\ unary_' = [i \in DOMAIN unary_ |->
            LET ws == {t \in UnaryWrites : UnaryIndex(t[1], t[2], t[3]) = i}
            IN IF ws = {} THEN unary_[i]
               ELSE LET t == CHOOSE t \in ws : \A u \in ws : UnaryOrder(u) <= UnaryOrder(t)
                    IN NormDataAt(scores, n, (t[1] * pad_height_ + t[2]) * pad_width_ + t[3])]
  /\ UNCHANGED <<cfgVars, shapeVars, unary_element_, map_element_, current_, next_, tmp_,
                 topVars, scores, n, imgVars, iter, pairwise_, trace, reallocated, bottom2_read>>

----
(* The pairwise potentials *)

\* lines 276-281: every potential is deleted and the list is emptied
ClearedList_keeps(list) == list
ClearedList(list) == <<>>

\* new PottsPotential(features, dim, N_, w): the object is opaque; it is known by
\* the feature dimension, the number of points, the parameters its features and
\* weight come from, the image of bottom[2] its colours were sampled from (none: -1)
\* and, as history, the image of the batch it was built for
Potential(dim, w, xy_std, rgb_std, ref) ==
  [dim |-> dim, N |-> N_, w |-> w, xy_std |-> xy_std, rgb_std |-> rgb_std,
   ref |-> ref, img |-> n]

\* lines 351-361
SpatialPotentials ==
  [k \in 1 .. Len(pos_w_) |-> Potential(2, pos_w_[k], pos_xy_std_[k], 0, -1)]

\* lines 364-391: im is bottom[2]->cpu_data(), the start of the blob for every n
BilateralPotentials ==
  IF has_image
  THEN [k \in 1 .. Len(bi_w_) |-> Potential(5, bi_w_[k], bi_xy_std_[k], bi_rgb_std_[k], 0)]
  ELSE <<>>

\* lines 378-385: the last colour read lies outside bottom[2]
ImageReadOutside ==
  /\ has_image /\ Len(bi_w_) > 0 /\ H_ > 0 /\ W_ > 0
  /\ (H_ - 1) * pad_width_ + (W_ - 1) + 2 * pad_height_ * pad_width_
       >= num_ * 3 * pad_height_ * pad_width_

SetupPairwiseFunctions(ub) ==
  /\ pc = "pairwise"
  /\ IF ub = "crash" THEN pc' = "crashed" /\ UNCHANGED pairwise_
     ELSE /\ pc' = "map"
          /\ pairwise_' = ClearedList(pairwise_) \o SpatialPotentials \o BilateralPotentials
  /\ UNCHANGED <<cfgVars, shapeVars, bufVars, topVars, scores, n, imgVars, iter, trace,
                 reallocated, bottom2_read>>

ClearPairwiseFunctions ==
  /\ pc = "clear"
  /\ pairwise_' = ClearedList(pairwise_)
  /\ n' = n + 1
  /\ trace' = <<>>
  /\ pc' = "image"
  /\ UNCHANGED <<cfgVars, shapeVars, bufVars, topVars, scores, imgVars, iter,
                 reallocated, bottom2_read>>

----
(* The solver *)

Event(op, k) == [op |-> op, k |-> k]

\* exp of the log-domain value scale * cell
ExpOf(cell, scale) ==
  IF cell.sign * scale = 1 THEN cell.p ELSE <<cell.p[2], cell.p[1]>>

RECURSIVE MaxExp(_, _)
\* lines 227-230: the maximum of the first j+1 values, a later one only if greater
MaxExp(e, j) ==
  IF j = 0 THEN e[0]
  ELSE LET m == MaxExp(e, j - 1) IN IF RatLess(m, e[j]) THEN e[j] ELSE m

\* lines 225-242: one pixel, from its M_ cells b
NormalizedPixel(b, scale) ==
  IF \E j \in 0 .. M_ - 1 : b[j].kind = "indet" THEN [j \in 0 .. M_ - 1 |-> Indet]
  ELSE IF \E j \in 0 .. M_ - 1 : b[j].kind = "smooth" THEN [j \in 0 .. M_ - 1 |-> Smooth]
  ELSE LET e  == [j \in 0 .. M_ - 1 |-> ExpOf(b[j], scale)]
           mx == MaxExp(e, M_ - 1)
           V  == [j \in 0 .. M_ - 1 |-> RatDiv(e[j], mx)]
           tt == RatSum(V, M_)
       IN [j \in 0 .. M_ - 1 |-> Prob(RatDiv(V[j], tt))]

\* A cell of a buffer, indeterminate outside it
At(buf, i) == IF i \in DOMAIN buf THEN buf[i] ELSE Indet

\* lines 221-245: out after ExpAndNormalize(out, in, scale)
ExpAndNormalize(out, in, scale) ==
  [i \in DOMAIN out |->
     IF i < N_ * M_
     THEN LET b == [j \in 0 .. M_ - 1 |-> At(in, (i \div M_) * M_ + j)]
          IN NormalizedPixel(b, scale)[i % M_]
     ELSE out[i]]

\* The solver reads and writes the cells 0 .. N_ * M_ - 1
SolverOutside == N_ * M_ > unary_element_

\* lines 263-264: next after next_[i] = -unary_[i]
Negated(next, unary) ==
  [i \in DOMAIN next |->
     IF i < N_ * M_
     THEN Cell(unary[i].kind, 0 - unary[i].sign, unary[i].p, unary[i].img)
     ELSE next[i]]

\* pairwise_[i]->apply(next_, current_, tmp_, M_): the accumulator after the
\* potential has added its message for each of its N points
Apply(pot, next) ==
  [i \in DOMAIN next |->
     IF i < pot.N * M_ /\ next[i].kind # "indet" THEN Smooth ELSE next[i]]

RECURSIVE ApplyAll(_, _, _)
\* lines 268-269: the potentials 1 .. k of the list, in order
ApplyAll(list, k, next) ==
  IF k = 0 THEN next ELSE Apply(list[k], ApplyAll(list, k - 1, next))

\* lines 268-269: the potentials applied by one step, in order
AppliedInStep(list) == [k \in 1 .. Len(list) |-> Event("apply", k)]

\* line 287: the loop of RunInference goes on
RunInferenceContinues_short(i) == i + 1 < max_iter_
RunInferenceContinues(i) == i < max_iter_

\* lines 303-304: the block of image n in top[0] and in top[1], zero-filled
ZeroFilled_not(top, offset, count, zero) == top
ZeroFilled(top, offset, count, zero) ==
  [i \in DOMAIN top |-> IF offset <= i /\ i < offset + count THEN zero ELSE top[i]]

\* lines 297-311 and 285: the outputs of image n are zero-filled and the solver starts
ComputeMapBegin(ub) ==
  /\ pc = "map"
  /\ top_inf' = ZeroFilled(top_inf, n * M_ * pad_height_ * pad_width_,
                           M_ * pad_height_ * pad_width_, Zero)
  /\ top_map' = ZeroFilled(top_map, n * pad_height_ * pad_width_,
                           pad_height_ * pad_width_, 0)
  /\ IF ub = "crash" THEN pc' = "crashed" /\ UNCHANGED <<current_, iter, trace>>
     ELSE /\ pc' = "infer"
          /\ current_' = ExpAndNormalize(current_, unary_, -1)
          /\ iter' = 0
          /\ trace' = <<Event("start", 0)>>
  /\ UNCHANGED <<cfgVars, shapeVars, unary_element_, map_element_, unary_, next_, tmp_,
                 scores, n, imgVars, pairwise_, reallocated, bottom2_read>>

\* lines 253-273, once per turn of the loop of RunInference
StepInference ==
  /\ pc = "infer"
  /\ RunInferenceContinues(iter)
  /\ LET next == ApplyAll(pairwise_, Len(pairwise_), Negated(next_, unary_))
     IN /\ next_' = next
        /\ current_' = ExpAndNormalize(current_, next, 1)
  /\ tmp_' = IF Len(pairwise_) = 0 THEN tmp_
             ELSE [i \in DOMAIN tmp_ |-> IF i < N_ * M_ THEN Smooth ELSE tmp_[i]]
  /\ iter' = iter + 1
  /\ trace' = trace \o AppliedInStep(pairwise_) \o <<Event("norm", 0)>>
  /\ UNCHANGED <<cfgVars, shapeVars, unary_element_, map_element_, unary_, topVars,
                 scores, n, imgVars, pairwise_, pc, reallocated, bottom2_read>>


\* lines 263-272 with N_ * M_ beyond the buffers: the step crashes instead
StepCrash ==
  /\ pc = "infer"
  /\ RunInferenceContinues(iter)
  /\ SolverOutside
  /\ pc' = "crashed"
  /\ UNCHANGED <<cfgVars, shapeVars, bufVars, topVars, scores, n, imgVars, iter, pairwise_,
                 trace, reallocated, bottom2_read>>

----
(* ComputeMap: the decoder *)

\* lines 319 and 328: the cell of current_ read for class c at active pixel (h, w)
CurrentIndex(h, w, c) == (h * W_ + w) * M_ + c
\* lines 320 and 329: where it is written, from the start of the image's block of top[0]
InfIndex(h, w, c) == (c * pad_height_ + h) * pad_width_ + w
\* line 339: where the label is written, from the start of the image's block of top[1]
MapIndex(h, w) == h * pad_width_ + w

RECURSIVE ArgMax(_, _)
\* lines 324-337: <<mx, imx>> after the classes 0 .. j, a later class only if greater
ArgMax(v, j) ==
  IF j = 0 THEN <<v[0].p, 0>>
  ELSE LET m == ArgMax(v, j - 1)
       IN IF RatLess(m[1], v[j].p) THEN <<v[j].p, j>> ELSE m

\* The label of active pixel (h, w): unknown when a value it is taken from is
Label(h, w) ==
  LET v == [c \in 0 .. M_ - 1 |-> At(current_, CurrentIndex(h, w, c))]
  IN IF M_ = 1 THEN 0
     ELSE IF \E c \in 0 .. M_ - 1 : v[c].kind # "prob" THEN IndetLabel
     ELSE ArgMax(v, M_ - 1)[2]

\* lines 316-343: the writes, in loop order
InfWrites == (0 .. H_ - 1) \X (0 .. W_ - 1) \X (0 .. M_ - 1)
InfOrder(t) == (t[1] * W_ + t[2]) * M_ + t[3]
MapWrites == (0 .. H_ - 1) \X (0 .. W_ - 1)
MapOrder(t) == t[1] * W_ + t[2]

InfOffset == n * M_ * pad_height_ * pad_width_
MapOffset == n * pad_height_ * pad_width_

DecodeOutside ==
  \/ \E t \in InfWrites : InfOffset + InfIndex(t[1], t[2], t[3]) \notin DOMAIN top_inf
  \/ \E t \in MapWrites : MapOffset + MapIndex(t[1], t[2]) \notin DOMAIN top_map
  \/ (N_ > 0 /\ SolverOutside)

ComputeMapDecode(ub) ==
  /\ pc = "infer"
  /\ ~RunInferenceContinues(iter)
  /\ IF ub = "crash" THEN pc' = "crashed" /\ UNCHANGED topVars
     ELSE
       /\ pc' = "clear"
       /\ top_inf' = [i \in DOMAIN top_inf |->
            LET ws == {t \in InfWrites : InfOffset + InfIndex(t[1], t[2], t[3]) = i}
            IN IF ws = {} THEN top_inf[i]
               ELSE LET t == CHOOSE t \in ws : \A u \in ws : InfOrder(u) <= InfOrder(t)
                    IN At(current_, CurrentIndex(t[1], t[2], t[3]))]
       /\ top_map' = [i \in DOMAIN top_map |->
            LET ws == {t \in MapWrites : MapOffset + MapIndex(t[1], t[2]) = i}
            IN IF ws = {} THEN top_map[i]
               ELSE LET t == CHOOSE t \in ws : \A u \in ws : MapOrder(u) <= MapOrder(t)
                    IN Label(t[1], t[2])]
  /\ UNCHANGED <<cfgVars, shapeVars, bufVars, scores, n, imgVars, iter, pairwise_, trace,
                 reallocated, bottom2_read>>

----
(* The specification *)

NoShape2 == [num |-> 0, height |-> 0, width |-> 0]

Next ==
  \/ \E p \in Params, nb \in 1 .. 3, channels2 \in {1, 3} : LayerSetUp(p, nb, channels2)
  \/ \E b0 \in Shapes0, num1 \in 1 .. MaxNum,
        b2 \in (IF nbottom >= 3 THEN Shapes2 ELSE {NoShape2}),
        ub \in (IF nbottom >= 3 THEN {"equal"} ELSE OutOfRange) : Reshape(b0, num1, b2, ub)
  \/ \E pat \in ScoreMaps : ForwardBegin(pat)
  \/ \E rh \in 0 .. MaxReal, rw \in 0 .. MaxReal : ImageCheck(rh, rw)
  \/ \E ub \in Outcomes(UnaryWritesOutside) : SetupUnaryEnergy(ub)
  \/ \E ub \in Outcomes(ImageReadOutside) : SetupPairwiseFunctions(ub)
  \/ \E ub \in Outcomes(SolverOutside) : ComputeMapBegin(ub)
  \/ StepInference
  \/ StepCrash
  \/ \E ub \in Outcomes(DecodeOutside) : ComputeMapDecode(ub)
  \/ ClearPairwiseFunctions
  \/ ForwardReturn

Spec == Init /\ [][Next]_vars

----
(* Properties *)

\* No pairwise kernel is configured
NoKernels == Len(pos_w_) = 0 /\ Len(bi_w_) = 0

\* The probability of class c at (h, w) of image img: 2^score over the sum of them
SoftmaxOfScores(img, c, h, w) ==
  LET e == [j \in 0 .. M_ - 1 |-> Pow2(Score(scores, img, j, h, w))]
      RECURSIVE Sum(_)
      Sum(k) == IF k = 0 THEN 0 ELSE Sum(k - 1) + e[k - 1]
  IN Rat(e[c], Sum(M_))

\* The lowest class whose raw score at (h, w) of image img is maximal
LowestBestClass(img, h, w) ==
  CHOOSE c \in 0 .. M_ - 1 :
    /\ \A d \in 0 .. M_ - 1 : Score(scores, img, d, h, w) <= Score(scores, img, c, h, w)
    /\ \A d \in 0 .. c - 1 : Score(scores, img, d, h, w) < Score(scores, img, c, h, w)

\* C1: a layer set up with at least one bilateral kernel and exactly two inputs
\* has failed fatally; it is never ready, reshaped or in Forward.
C1_BilateralWithoutImageIsFatal ==
  (Len(bi_w_) > 0 /\ nbottom = 2) => pc = "fatal"

\* C2: with no pairwise kernel, whatever the iteration count, once an image with
\* active size H <= Hp, W <= Wp is decoded, the label at each active pixel is the
\* lowest class whose raw score there is maximal.
C2_LabelIsLowestBestClass ==
  (pc = "clear" /\ NoKernels /\ H_ <= pad_height_ /\ W_ <= pad_width_) =>
    \A h \in 0 .. H_ - 1, w \in 0 .. W_ - 1 :
      top_map[MapOffset + MapIndex(h, w)] = LowestBestClass(n, h, w)

\* C3: an image that got past the capacity check, so that its buffers are about
\* to be written, has an active footprint H x W x M within the capacity of the
\* buffers.
C3_OversizeImageIsFatal ==
  (pc = "unary") => H_ * W_ * M_ <= unary_element_

\* Every entry of the blocks of image n outside its active rectangle is zero
PaddingIsZero ==
  \A h \in 0 .. pad_height_ - 1, w \in 0 .. pad_width_ - 1 :
    (h >= H_ \/ w >= W_) =>
      /\ top_map[MapOffset + MapIndex(h, w)] = 0
      /\ \A c \in 0 .. M_ - 1 : top_inf[InfOffset + InfIndex(h, w, c)] = Zero

\* C4: when an image whose active size is strictly smaller than the padded size
\* in both directions has been decoded, every entry of its blocks of top[0] and
\* top[1] outside the active rectangle is zero; and no step of Forward changes the
\* blocks of the images before the current one.
C4_PaddingIsZero ==
  [][/\ (pc' = "clear" /\ H_' < pad_height_' /\ W_' < pad_width_') => PaddingIsZero'
     /\ pc \in {"image", "unary", "pairwise", "map", "infer", "clear"} =>
          /\ \A i \in DOMAIN top_inf : i < InfOffset => top_inf'[i] = top_inf[i]
          /\ \A i \in DOMAIN top_map : i < MapOffset => top_map'[i] = top_map[i]]_vars

C4_Witness ==
  /\ pc = "clear" /\ n = 1
  /\ pad_height_ = 2 /\ pad_width_ = 2 /\ M_ = 2 /\ H_ = 1 /\ W_ = 1
  /\ top_inf[InfOffset].kind = "prob"
  /\ top_inf[0].kind = "prob"

\* C5: the capacity never decreases, and a Reshape that completes releases and
\* reallocates the four buffers, to exactly the requested footprint, if and only
\* if that footprint is strictly larger than the capacity; otherwise it leaves
\* capacity and buffers as they are.
C5_GrowOnly ==
  [][/\ unary_element_' >= unary_element_
     /\ (pc \in {"ready", "reshaped"} /\ pc' = "reshaped") =>
          LET S == pad_height_' * pad_width_' * M_'
          IN /\ reallocated' <=> (S > unary_element_)
             /\ (S > unary_element_) =>
                  /\ unary_element_' = S
                  /\ \A buf \in {unary_', current_', next_', tmp_'} :
                       DOMAIN buf = 0 .. S - 1 /\ \A i \in DOMAIN buf : buf[i] = Indet
             /\ (S <= unary_element_) => UNCHANGED bufVars]_vars

C5_Witness ==
  /\ pc = "reshaped" /\ ~reallocated
  /\ pad_height_ * pad_width_ * M_ < unary_element_

\* C6: with exactly two inputs and no bilateral kernel, bottom[2] is never read.
C6_ThirdInputNotRead ==
  (nbottom = 2 /\ Len(bi_w_) = 0) => ~bottom2_read

\* The operations of a solver that has made i steps over a list of len potentials
RECURSIVE SolverTrace(_, _)
SolverTrace(i, len) ==
  IF i = 0 THEN <<Event("start", 0)>>
  ELSE SolverTrace(i - 1, len) \o [k \in 1 .. len |-> Event("apply", k)]
         \o <<Event("norm", 0)>>

\* current_ is exactly softmax(-unary_) at every active pixel whose energies are known
CurrentIsSoftmaxOfUnary ==
  \A i \in 0 .. N_ - 1 :
    (\A c \in 0 .. M_ - 1 : At(unary_, i * M_ + c).kind = "log") =>
      LET q   == [c \in 0 .. M_ - 1 |-> ExpOf(unary_[i * M_ + c], -1)]
          sum == RatSum(q, M_)
      IN \A c \in 0 .. M_ - 1 :
           /\ current_[i * M_ + c].kind = "prob"
           /\ RatMul(current_[i * M_ + c].p, sum) = q[c]

\* C7: while an image is solved the solver has made one Start and then, for each
\* step made, every potential of the list once in list order and one
\* normalisation; when the image is decoded it has made exactly max_iter_ steps;
\* with max_iter_ = 0 no potential was applied and current_ is softmax(-unary_).
C7_FixedIterations ==
  /\ pc = "infer" => (iter <= max_iter_ /\ trace = SolverTrace(iter, Len(pairwise_)))
  /\ pc = "clear" => (iter = max_iter_ /\ trace = SolverTrace(max_iter_, Len(pairwise_)))
  /\ (pc = "clear" /\ max_iter_ = 0) =>
       (trace = <<Event("start", 0)>> /\ CurrentIsSoftmaxOfUnary)

C7_Witness ==
  /\ pc = "clear" /\ max_iter_ = MaxIter /\ Len(pairwise_) = 2 /\ N_ > 1 /\ M_ > 1
  /\ Len(trace) = 1 + 3 * MaxIter

\* C8: when the solver starts on an image with H <= Hp and W <= Wp, each cell of
\* unary_ it reads for class c at active pixel (h, w) was written for that image
\* and holds the energy of class c at (h, w) of its score map.
C8_SolverReadsThisImagesEnergies ==
  (pc = "map" /\ H_ <= pad_height_ /\ W_ <= pad_width_) =>
    \A h \in 0 .. H_ - 1, w \in 0 .. W_ - 1, c \in 0 .. M_ - 1 :
      LET cell == At(unary_, CurrentIndex(h, w, c))
      IN /\ cell.kind = "log" /\ cell.sign = -1
         /\ cell.img = n
         /\ cell.p = SoftmaxOfScores(n, c, h, w)

\* The potentials of image n: one per spatial kernel, then one per bilateral
\* kernel when there is a reference image, each over the N_ pixels of image n
IsListOfImage ==
  /\ Len(pairwise_) = Len(pos_w_) + (IF has_image THEN Len(bi_w_) ELSE 0)
  /\ \A k \in 1 .. Len(pairwise_) :
       /\ pairwise_[k].img = n
       /\ pairwise_[k].N = N_
       /\ pairwise_[k].dim = (IF k <= Len(pos_w_) THEN 2 ELSE 5)
       /\ pairwise_[k].w = (IF k <= Len(pos_w_) THEN pos_w_[k] ELSE bi_w_[k - Len(pos_w_)])

\* C9: the list of potentials is empty before the kernels of an image are built,
\* after each image has been decoded and cleared and when Forward returns; while
\* image n is solved and decoded it holds exactly the potentials built for image n.
C9_PotentialsLiveForOneImage ==
  /\ pc \in {"ready", "reshaped", "image", "unary", "pairwise", "returned"} => pairwise_ = <<>>
  /\ pc \in {"map", "infer", "clear"} => IsListOfImage

C9_Witness ==
  pc = "infer" /\ n = 1 /\ Len(pairwise_) = 2 /\ iter = 1 /\ N_ > 0

\* C10: an image with pixels that got past the capacity check has active size
\* H <= Hp and W <= Wp, writes unary_ only inside the buffer and writes the outputs only
\* inside its own blocks.
C10_ActiveSizeWithinPadded ==
  (pc = "unary" /\ N_ > 0) =>
    /\ H_ <= pad_height_ /\ W_ <= pad_width_
    /\ ~UnaryWritesOutside
    /\ \A t \in InfWrites : InfIndex(t[1], t[2], t[3]) < M_ * pad_height_ * pad_width_
    /\ \A t \in MapWrites : MapIndex(t[1], t[2]) < pad_height_ * pad_width_

====
